---- MODULE Spec2Model ----
(***************************************************************************)
(* Credential authentication of amarnathz123/Testing_db.                   *)
(*                                                                         *)
(* Server (src/unnamed/part_002, lines 139-337): an express application    *)
(* with the routes /api/register, /api/login, /api/profile and /api/verify *)
(* over one MongoDB collection 'users', bcryptjs for password hashes and   *)
(* jsonwebtoken for bearer tokens.                                         *)
(* Browser client (src/unnamed/part_000): the AuthProvider, which keeps    *)
(* the token in localStorage and the user in React state.                  *)
(*                                                                         *)
(* A request handler runs to its next await without interruption (one      *)
(* node.js thread), so a handler is split into steps only where it touches *)
(* the shared collection a second time: register reads the collection      *)
(* (findOne) and later writes it (insertOne); other requests may run       *)
(* between the two.  login, verify and profile touch the collection at     *)
(* most once and are one step each.                                        *)
(*                                                                         *)
(* Time is counted in days: the only duration of the program is the        *)
(* token's validity of '7d'.                                               *)
(***************************************************************************)
EXTENDS Integers, Sequences, FiniteSets, TLC

\* ------------------------------------------------------------------ bounds

\* Register and login requests in one behaviour.
MaxReqs == 2
\* Advances of the clock in one behaviour.
MaxTicks == 2
\* Protected requests (verify, profile) in one behaviour.
MaxAuth == 1

\* --------------------------------------------------------- program constants

\* const saltRounds = 10
saltRounds == 10
\* { expiresIn: '7d' }, in days
expiresIn == 7

\* const JWT_SECRET = process.env.JWT_SECRET: set once at start, never assigned.
JWT_SECRET == "server-secret"
\* A key the server does not hold.
OtherSecret == "other-secret"

\* ------------------------------------------------------------------- inputs

EmptyString == ""
\* The value of a field the body does not have: destructuring gives undefined.
Missing == "<undefined>"

\* A password is its first 72 bytes ('head', named here by a label) and the
\* bytes after them ('tail', empty for a password of at most 72 bytes).  The
\* empty password has neither.  Long1 and Long2 are two passwords of 73 bytes
\* that differ in the last byte.
Password(head, tail) == [head |-> head, tail |-> tail]
NoPassword == Password(EmptyString, EmptyString)
MissingPassword == Password(Missing, EmptyString)
Short1 == Password("s3cret!", EmptyString)
Long1 == Password("72 bytes of a long passphrase", "X")
Long2 == Password("72 bytes of a long passphrase", "Y")
Passwords == {NoPassword, Short1, Long1, Long2}

Names == {EmptyString, "Ada"}
Emails == {EmptyString, "ada@example.com", "Ada@example.com"}

\* The case-insensitive comparison key of an email (String.toLowerCase on
\* the emails of the model).
Lower(email) == IF email = "Ada@example.com" THEN "ada@example.com" ELSE email

\* JavaScript's !x for a field of the body: the empty string and undefined
\* are falsy.
Falsy(x) == x \in {EmptyString, Missing}
\* !password accepting every password.
FalsyPassword_Never(p) == FALSE
\* !password
FalsyPassword(p) == p \in {NoPassword, MissingPassword}

\* Bodies of POST /api/register: every combination of non-empty fields, and
\* each field empty and each field missing in turn.
RegisterBodies ==
    {[name |-> n, email |-> e, password |-> p] :
        n \in Names \ {EmptyString}, e \in Emails \ {EmptyString},
        p \in Passwords \ {NoPassword}}
    \cup {[name |-> EmptyString, email |-> "ada@example.com", password |-> Short1],
          [name |-> "Ada", email |-> EmptyString, password |-> Short1],
          [name |-> "Ada", email |-> "ada@example.com", password |-> NoPassword],
          [name |-> Missing, email |-> "ada@example.com", password |-> Short1],
          [name |-> "Ada", email |-> Missing, password |-> Short1],
          [name |-> "Ada", email |-> "ada@example.com", password |-> MissingPassword]}

\* Bodies of POST /api/login.
LoginBodies ==
    {[email |-> e, password |-> p] :
        e \in Emails \ {EmptyString}, p \in Passwords \ {NoPassword}}
    \cup {[email |-> EmptyString, password |-> Short1],
          [email |-> "ada@example.com", password |-> NoPassword],
          [email |-> Missing, password |-> Short1],
          [email |-> "ada@example.com", password |-> MissingPassword]}

\* ------------------------------------------------------------------ bcryptjs

\* The key bcryptjs derives from a password: the Blowfish key schedule reads
\* 18 words of 4 bytes, so bytes after the 72nd never reach it.
BcryptKey(password) == password.head

\* bcrypt.hash(password, saltRounds) with the salt it generated: the hash
\* string holds the cost, the salt and the digest of (key, salt, cost).
BcryptHash(password, rounds, salt) ==
    [cost |-> rounds, salt |-> salt,
     digest |-> <<BcryptKey(password), salt, rounds>>]

\* bcrypt.compare(password, hash): hashes the password with the salt and the
\* cost read from the hash and compares the digests.
BcryptCompare(password, hash) ==
    BcryptHash(password, hash.cost, hash.salt).digest = hash.digest

\* ------------------------------------------------------------- identifiers

\* An ObjectId is a number here; its JSON form (toHexString) is another type.
ToHexString(oid) == <<"hex", oid>>
\* new ObjectId(hexString)
ObjectIdOf(hex) == hex[2]

\* --------------------------------------------------------------- jsonwebtoken

\* HMAC-SHA256 of a payload under a key: equal only for equal payload and key.
\* 'bits' tells a signature whose bytes were altered after signing.
Hmac(payload, key) == [msg |-> payload, key |-> key, bits |-> "intact"]

\* jwt.sign issuing a token that is expired when it is issued.
JwtSign_ExpiresAtOnce(claims, secret, t) ==
    LET payload == [userId |-> claims.userId, email |-> claims.email,
                    iat |-> t, exp |-> t]
    IN  [fmt |-> "jwt", payload |-> payload, sig |-> Hmac(payload, secret)]

\* jwt.sign(claims, secret, { expiresIn: '7d' }) at time t.
JwtSign(claims, secret, t) ==
    LET payload == [userId |-> claims.userId, email |-> claims.email,
                    iat |-> t, exp |-> t + expiresIn]
    IN  [fmt |-> "jwt", payload |-> payload, sig |-> Hmac(payload, secret)]

NoToken == [fmt |-> "none"]
NoUser == [none |-> TRUE]

\* ------------------------------------------------------------------ responses

Response(status, message, token, user) ==
    [status |-> status, message |-> message, token |-> token, user |-> user]
NoResponse == Response(0, EmptyString, NoToken, NoUser)

\* The catch block sending the message of the error it caught.
ServerError_Detailed ==
    Response(500, "MongoNetworkError: connect ECONNREFUSED", NoToken, NoUser)
\* The catch block of every route.
ServerError == Response(500, "Server error", NoToken, NoUser)

\* ---------------------------------------------------------------------- state

VARIABLES
    users,       \* db.collection('users'): the documents, in insertion order
    nextId,      \* the next ObjectId the driver generates
    nextSalt,    \* the next salt bcrypt generates
    now,         \* the clock, in days
    ticks,       \* advances of the clock so far
    reqs,        \* the register and login requests: inputs, position, response
    lastAuth,    \* the last protected request (verify, profile) and its answer
    nAuth,       \* protected requests so far
    localToken,  \* the browser's localStorage item 'token'
    user,        \* the browser's AuthProvider state 'user'
    loading,     \* the AuthProvider state 'loading'
    error,       \* the AuthProvider state 'error'
    call,        \* the operation of the AuthProvider that is awaiting its fetch
    db,          \* the server's 'let db': unset, or the database handle
    server       \* the server process: connecting, resolved, listening, exited

vars == <<users, nextId, nextSalt, now, ticks, reqs, lastAuth, nAuth, localToken,
          user, loading, error, call, db, server>>
storeVars == <<users, nextId, nextSalt>>
clockVars == <<now, ticks>>
authVars == <<lastAuth, nAuth>>
clientVars == <<localToken, user, loading, error, call>>
procVars == <<db, server>>

Slots == 1..MaxReqs

NoHash == [cost |-> 0]
Idle ==
    [kind |-> "none", pc |-> "idle", body |-> [none |-> TRUE],
     hashed |-> NoHash, createdAt |-> 0, prior |-> {}, known |-> FALSE,
     calls |-> <<>>, exit |-> "none", resp |-> NoResponse]

Responded(r) == reqs[r].pc \in {"done", "closed"}

\* ---------------------------------------------------------------- the store

NoDoc == [_id |-> 0]

\* The documents of the collection that hold this email.
DocsOf(email) == {i \in 1..Len(users) : users[i].email = email}

\* db.collection('users').findOne({ email }): the first document whose email
\* is the same string.
FindOneByEmail(email) ==
    LET hits == {i \in 1..Len(users) : users[i].email = email}
    IN  IF hits = {} THEN NoDoc
        ELSE users[CHOOSE i \in hits : \A j \in hits : i <= j]

\* findOne({ _id }) without the projection.
FindOneById_NoProjection(oid) ==
    LET hits == {i \in 1..Len(users) : users[i]._id = oid}
    IN  IF hits = {} THEN NoDoc ELSE users[CHOOSE i \in hits : TRUE]

\* findOne answering with the first document of the collection.
FindOneById_First(oid) ==
    IF Len(users) = 0 THEN NoDoc
    ELSE [_id |-> users[1]._id, name |-> users[1].name, email |-> users[1].email,
          createdAt |-> users[1].createdAt]

\* db.collection('users').findOne({ _id }, { projection: { password: 0 } })
FindOneById(oid) ==
    LET hits == {i \in 1..Len(users) : users[i]._id = oid}
    IN  IF hits = {} THEN NoDoc
        ELSE LET d == users[CHOOSE i \in hits : TRUE]
             IN  [_id |-> d._id, name |-> d.name, email |-> d.email,
                  createdAt |-> d.createdAt]

\* A request takes the first free slot.
Free(r) ==
    /\ reqs[r].pc = "idle"
    /\ \A s \in Slots : s < r => reqs[s].pc # "idle"

\* A request as it arrives.  Three fields are history, kept for the
\* properties: 'prior', the requests answered before it arrived, 'known',
\* whether the collection held its email then, and 'calls', the calls to the
\* store, to bcrypt and to jwt.sign the handler has made so far.
Started(kind, body) ==
    [Idle EXCEPT !.kind = kind, !.body = body,
                 !.prior = {s \in Slots : Responded(s)},
                 !.known = DocsOf(body.email) # {}]

Finish(req, exit, resp) ==
    [req EXCEPT !.pc = "done", !.exit = exit, !.resp = resp]

\* The handler has made these calls.
Called(req, names) == [req EXCEPT !.calls = @ \o names]

\* insertOne keeping one document for an email: a document that holds the
\* email is replaced.
InsertOne_Upsert(coll, doc) ==
    IF \E i \in 1..Len(coll) : coll[i].email = doc.email
    THEN [i \in 1..Len(coll) |-> IF coll[i].email = doc.email THEN doc ELSE coll[i]]
    ELSE Append(coll, doc)

\* db.collection('users').insertOne(user)
InsertOne(coll, doc) == Append(coll, doc)

\* How insertOne ends: the document is inserted, the store cannot be reached,
\* or the store refuses the document because a unique index on the email
\* finds a document with this email (the code creates no such index; the
\* database may have one).
InsertOutcomes == {"inserted", "unavailable", "duplicate"}

\* ------------------------------------------------------------- POST /register

RegisterExists == Response(400, "User already exists", NoToken, NoUser)
RegisterInvalid == Response(400, "All fields are required", NoToken, NoUser)

\* The handler up to 'await insertOne': the fields are checked, the email is
\* looked up, the password is hashed and the document is built.  storeOk is
\* whether findOne answers or throws.
RegisterFind(r, body, storeOk) ==
    /\ server = "listening"
    /\ Free(r)
    /\ LET req == Started("register", body)
           asked == Called(req, <<"findOne">>)
           existingUser == FindOneByEmail(body.email)
       IN  IF Falsy(body.email) \/ FalsyPassword(body.password) \/ Falsy(body.name)
           THEN /\ reqs' = [reqs EXCEPT ![r] = Finish(req, "invalid", RegisterInvalid)]
                /\ UNCHANGED nextSalt
           ELSE IF ~storeOk
           THEN /\ reqs' = [reqs EXCEPT ![r] = Finish(asked, "error", ServerError)]
                /\ UNCHANGED nextSalt
           ELSE IF existingUser # NoDoc
           THEN /\ reqs' = [reqs EXCEPT ![r] = Finish(asked, "exists", RegisterExists)]
                /\ UNCHANGED nextSalt
           ELSE /\ reqs' = [reqs EXCEPT ![r] =
                      [Called(asked, <<"bcrypt.hash">>) EXCEPT
                          !.pc = "insert",
                          !.hashed = BcryptHash(body.password, saltRounds, nextSalt),
                          !.createdAt = now]]
                /\ nextSalt' = nextSalt + 1
    /\ UNCHANGED <<users, nextId, clockVars, authVars, clientVars, procVars>>

\* The handler from 'await insertOne' on: the document is inserted under a new
\* _id, the token is signed and the 201 response is sent; an insertOne that
\* throws, for whatever reason, ends in the catch block.
RegisterInsert(r, outcome) ==
    /\ reqs[r].kind = "register"
    /\ reqs[r].pc = "insert"
    /\ outcome = "duplicate" => DocsOf(reqs[r].body.email) # {}
    /\ LET req == Called(reqs[r], <<"insertOne">>)
           doc == [_id |-> nextId, name |-> req.body.name, email |-> req.body.email,
                   password |-> req.hashed, createdAt |-> req.createdAt]
           token == JwtSign([userId |-> ToHexString(doc._id), email |-> doc.email],
                            JWT_SECRET, now)
           created == Response(201, "User created successfully", token,
                               [id |-> ToHexString(doc._id), name |-> doc.name,
                                email |-> doc.email])
       IN  IF outcome = "unavailable"
           THEN /\ reqs' = [reqs EXCEPT ![r] = Finish(req, "error", ServerError)]
                /\ UNCHANGED <<users, nextId>>
           ELSE IF outcome = "duplicate"
           THEN /\ reqs' = [reqs EXCEPT ![r] = Finish(req, "dupkey", ServerError)]
                /\ UNCHANGED <<users, nextId>>
           ELSE /\ users' = InsertOne(users, doc)
                /\ nextId' = nextId + 1
                /\ reqs' = [reqs EXCEPT ![r] =
                      Finish(Called(req, <<"jwt.sign">>), "created", created)]
    /\ UNCHANGED <<nextSalt, clockVars, authVars, clientVars, procVars>>

\* ---------------------------------------------------------------- POST /login

LoginInvalid == Response(400, "Email and password are required", NoToken, NoUser)
\* The answer to an unknown email naming what is wrong.
LoginNoUser_Named == Response(400, "User not found", NoToken, NoUser)
LoginNoUser == Response(400, "Invalid credentials", NoToken, NoUser)
LoginBadPassword == Response(400, "Invalid credentials", NoToken, NoUser)

Login(r, body, storeOk) ==
    /\ server = "listening"
    /\ Free(r)
    /\ LET req == Started("login", body)
           asked == Called(req, <<"findOne">>)
           compared == Called(asked, <<"bcrypt.compare">>)
           found == FindOneByEmail(body.email)
           token == JwtSign([userId |-> ToHexString(found._id), email |-> found.email],
                            JWT_SECRET, now)
           ok == Response(200, "Login successful", token,
                          [id |-> ToHexString(found._id), name |-> found.name,
                           email |-> found.email])
       IN  reqs' = [reqs EXCEPT ![r] =
               IF Falsy(body.email) \/ FalsyPassword(body.password)
               THEN Finish(req, "invalid", LoginInvalid)
               ELSE IF ~storeOk THEN Finish(asked, "error", ServerError)
               ELSE IF found = NoDoc THEN Finish(asked, "nouser", LoginNoUser)
               ELSE IF ~BcryptCompare(body.password, found.password)
               THEN Finish(compared, "badpw", LoginBadPassword)
               ELSE Finish(Called(compared, <<"jwt.sign">>), "ok", ok)]
    /\ UNCHANGED <<storeVars, clockVars, authVars, clientVars, procVars>>

\* ---------------------------------------------------------------------- clock

Tick(d) ==
    /\ ticks < MaxTicks
    /\ now' = now + d
    /\ ticks' = ticks + 1
    /\ UNCHANGED <<storeVars, reqs, authVars, clientVars, procVars>>

\* ------------------------------------------------------- authenticateToken

\* A part of a header that is plain text (a scheme, an empty part between two
\* spaces, a string that is no JWT).
Text(s) == [fmt |-> "text", text |-> s]
Undefined == [fmt |-> "undefined"]

\* req.headers['authorization']: absent, or the parts its split(' ') gives.
NoHeader == [present |-> FALSE, parts |-> <<>>]
Header(parts) == [present |-> TRUE, parts |-> parts]
Bearer(token) == Header(<<Text("Bearer"), token>>)

\* authHeader && authHeader.split(' ')[1]
TokenOf(header) ==
    IF ~header.present THEN Undefined
    ELSE IF Len(header.parts) < 2 THEN Undefined
    ELSE header.parts[2]

\* !token
NoTokenGiven(token) == token = Undefined \/ token = Text(EmptyString)

NoPayload == [none |-> TRUE]
JwtError(message) == [err |-> message, decoded |-> NoPayload]

\* The tokens the server has sent so far.
Issued == {reqs[r].resp.token : r \in {s \in Slots : reqs[s].resp.token # NoToken}}

\* jwt.verify behind a session table: a token is refused once a newer one was
\* issued to its subject.
JwtVerify_SingleSession(token, secret, t) ==
    IF token.fmt # "jwt" THEN JwtError("jwt malformed")
    ELSE IF token.sig.bits = "empty" THEN JwtError("jwt signature is required")
    ELSE IF token.sig # Hmac(token.payload, secret) THEN JwtError("invalid signature")
    ELSE IF t >= token.payload.exp THEN JwtError("jwt expired")
    ELSE IF \E n \in Issued : /\ n.payload.userId = token.payload.userId
                               /\ n.payload.iat > token.payload.iat
    THEN JwtError("jwt revoked")
    ELSE [err |-> "none", decoded |-> token.payload]

\* jwt.verify refusing a token only at the instant of its expiry.
JwtVerify_ExpiryEq(token, secret, t) ==
    IF token.fmt # "jwt" THEN JwtError("jwt malformed")
    ELSE IF token.sig.bits = "empty" THEN JwtError("jwt signature is required")
    ELSE IF token.sig # Hmac(token.payload, secret) THEN JwtError("invalid signature")
    ELSE IF t = token.payload.exp THEN JwtError("jwt expired")
    ELSE [err |-> "none", decoded |-> token.payload]

\* jwt.verify accepting a token at the instant of its expiry.
JwtVerify_ExpiryLate(token, secret, t) ==
    IF token.fmt # "jwt" THEN JwtError("jwt malformed")
    ELSE IF token.sig.bits = "empty" THEN JwtError("jwt signature is required")
    ELSE IF token.sig # Hmac(token.payload, secret) THEN JwtError("invalid signature")
    ELSE IF t > token.payload.exp THEN JwtError("jwt expired")
    ELSE [err |-> "none", decoded |-> token.payload]

\* jwt.verify checking the key of the signature and not the payload it signs.
JwtVerify_KeyOnly(token, secret, t) ==
    IF token.fmt # "jwt" THEN JwtError("jwt malformed")
    ELSE IF token.sig.bits = "empty" THEN JwtError("jwt signature is required")
    ELSE IF token.sig.key # secret \/ token.sig.bits # "intact"
    THEN JwtError("invalid signature")
    ELSE IF t >= token.payload.exp THEN JwtError("jwt expired")
    ELSE [err |-> "none", decoded |-> token.payload]

\* jwt.verify(token, secret) at time t: the checks of jsonwebtoken in its
\* order: three segments that decode, a signature, the signature of the
\* payload under the secret, the expiry (clockTimestamp >= payload.exp).
JwtVerify(token, secret, t) ==
    IF token.fmt # "jwt" THEN JwtError("jwt malformed")
    ELSE IF token.sig.bits = "empty" THEN JwtError("jwt signature is required")
    ELSE IF token.sig # Hmac(token.payload, secret) THEN JwtError("invalid signature")
    ELSE IF t >= token.payload.exp THEN JwtError("jwt expired")
    ELSE [err |-> "none", decoded |-> token.payload]

TokenRequired == Response(401, "Access token required", NoToken, NoUser)
TokenRejected == Response(403, "Invalid or expired token", NoToken, NoUser)

\* The middleware answering 403 to a request without a token.
AuthenticateToken_Forbidden(header, t) ==
    LET token == TokenOf(header)
        v == JwtVerify(token, JWT_SECRET, t)
    IN  IF NoTokenGiven(token)
        THEN [next |-> FALSE, resp |-> TokenRejected, user |-> NoUser, err |-> "none"]
        ELSE IF v.err # "none"
        THEN [next |-> FALSE, resp |-> TokenRejected, user |-> NoUser, err |-> v.err]
        ELSE [next |-> TRUE, resp |-> NoResponse, user |-> v.decoded, err |-> "none"]

\* The middleware: what it answers itself, or next() with req.user set.
\* 'err' is the error jwt.verify handed to the callback.
AuthenticateToken(header, t) ==
    LET token == TokenOf(header)
        v == JwtVerify(token, JWT_SECRET, t)
    IN  IF NoTokenGiven(token)
        THEN [next |-> FALSE, resp |-> TokenRequired, user |-> NoUser, err |-> "none"]
        ELSE IF v.err # "none"
        THEN [next |-> FALSE, resp |-> TokenRejected, user |-> NoUser, err |-> v.err]
        ELSE [next |-> TRUE, resp |-> NoResponse, user |-> v.decoded, err |-> "none"]

\* What a client can do to a token it holds without the server's secret.
AlterSignature(token) == [token EXCEPT !.sig.bits = "altered"]
StripSignature(token) == [token EXCEPT !.sig.bits = "empty"]
ExtendExpiry(token) == [token EXCEPT !.payload.exp = @ + expiresIn]
ChangeEmail(token) == [token EXCEPT !.payload.email = "mallory@example.com"]
Resign(token) == [token EXCEPT !.sig = Hmac(token.payload, OtherSecret)]

Tampered ==
    UNION {{AlterSignature(t), StripSignature(t), ExtendExpiry(t), ChangeEmail(t),
            Resign(ChangeEmail(t))} : t \in Issued}

\* The authorization headers a client can send.
Headers ==
    {NoHeader, Header(<<Text("Bearer")>>), Bearer(Text(EmptyString)),
     Bearer(Text("not-a-jwt"))}
    \cup {Bearer(t) : t \in Issued \cup Tampered}
    \cup {Header(<<Text("Bearer"), Text(EmptyString), t>>) : t \in Issued}
    \cup {Header(<<Text("Token"), t>>) : t \in Issued}

\* The last protected request: its route, header and time, the error jwt.verify
\* reported, the calls to the store its handler made, whether one of them
\* threw, and the response.
NoAuth == [route |-> "none", header |-> NoHeader, at |-> 0, err |-> "none",
           calls |-> <<>>, thrown |-> FALSE, resp |-> NoResponse]

\* GET /api/verify
ProfileNotFound == Response(404, "User not found", NoToken, NoUser)

\* /api/verify looking the subject of the token up in the collection.
VerifyRoute_Lookup(header, t) ==
    LET a == AuthenticateToken(header, t)
    IN  IF ~a.next THEN a.resp
        ELSE IF FindOneById(ObjectIdOf(a.user.userId)) = NoDoc THEN ProfileNotFound
        ELSE Response(200, "Token is valid", NoToken, a.user)

VerifyRoute(header, t) ==
    LET a == AuthenticateToken(header, t)
    IN  IF a.next THEN Response(200, "Token is valid", NoToken, a.user) ELSE a.resp

Verify(header) ==
    /\ server = "listening"
    /\ nAuth < MaxAuth
    /\ nAuth' = nAuth + 1
    /\ lastAuth' = [route |-> "verify", header |-> header, at |-> now,
                    err |-> AuthenticateToken(header, now).err,
                    calls |-> <<>>, thrown |-> FALSE,
                    resp |-> VerifyRoute(header, now)]
    /\ UNCHANGED <<storeVars, clockVars, reqs, clientVars, procVars>>

\* GET /api/profile
ProfileRoute(header, t, storeOk) ==
    LET a == AuthenticateToken(header, t)
        doc == FindOneById(ObjectIdOf(a.user.userId))
    IN  IF ~a.next THEN a.resp
        ELSE IF ~storeOk THEN ServerError
        ELSE IF doc = NoDoc THEN ProfileNotFound
        ELSE Response(200, EmptyString, NoToken, doc)

Profile(header, storeOk) ==
    /\ server = "listening"
    /\ nAuth < MaxAuth
    /\ nAuth' = nAuth + 1
    /\ lastAuth' = [route |-> "profile", header |-> header, at |-> now,
                    err |-> AuthenticateToken(header, now).err,
                    calls |-> IF AuthenticateToken(header, now).next
                              THEN <<"findOne">> ELSE <<>>,
                    thrown |-> AuthenticateToken(header, now).next /\ ~storeOk,
                    resp |-> ProfileRoute(header, now, storeOk)]
    /\ UNCHANGED <<storeVars, clockVars, reqs, clientVars, procVars>>

\* --------------------------------------------------------------- the browser

\* null, for the state 'error'
Null == "<null>"

NoCall == [op |-> "none", body |-> [none |-> TRUE], token |-> NoToken, since |-> {}]
\* The AuthProvider is rendered and its effect has not run yet.
Mounting == [NoCall EXCEPT !.op = "mount"]

\* AuthContainer: the spinner while loading, the Dashboard for a user, the
\* login or register form otherwise.
ShowsForm == ~loading /\ user = NoUser
\* The Dashboard, with its Sign Out button, is rendered.
ShowsDashboard == ~loading /\ user # NoUser

\* The effect after the first render: a stored token is sent to /api/verify,
\* and without one loading ends at once.
Mount ==
    /\ call.op = "mount"
    /\ IF localToken # NoToken
       THEN /\ call' = [NoCall EXCEPT !.op = "verifyToken", !.token = localToken]
            /\ UNCHANGED loading
       ELSE /\ call' = NoCall
            /\ loading' = FALSE
    /\ UNCHANGED <<storeVars, clockVars, reqs, authVars, procVars, localToken, user, error>>

\* The user verifyToken builds from the claims /api/verify returns: the
\* claims hold no name, so the name is 'User'.
UserOfClaims(claims) == [id |-> claims.userId, name |-> "User", email |-> claims.email]

\* verifyToken leaving a token the server refused in localStorage.
VerifyTokenSettle_KeepToken(netOk) ==
    /\ call.op = "verifyToken"
    /\ netOk => server = "listening"
    /\ LET resp == VerifyRoute(Bearer(call.token), now)
       IN  IF netOk /\ resp.status = 200
           THEN user' = UserOfClaims(resp.user)
           ELSE UNCHANGED user
    /\ loading' = FALSE
    /\ call' = NoCall
    /\ UNCHANGED <<storeVars, clockVars, reqs, authVars, procVars, error, localToken>>

\* verifyToken ending loading only where it sets the user.
VerifyTokenSettle_NoFinally(netOk) ==
    /\ call.op = "verifyToken"
    /\ netOk => server = "listening"
    /\ LET resp == VerifyRoute(Bearer(call.token), now)
       IN  IF netOk /\ resp.status = 200
           THEN /\ user' = UserOfClaims(resp.user)
                /\ loading' = FALSE
                /\ UNCHANGED localToken
           ELSE /\ localToken' = NoToken
                /\ UNCHANGED <<user, loading>>
    /\ call' = NoCall
    /\ UNCHANGED <<storeVars, clockVars, reqs, authVars, procVars, error>>

\* verifyToken from the point where its fetch settles: with the answer of
\* /api/verify (netOk), or rejected.  An answer that is ok sets the user; any
\* other answer and a rejected fetch remove the stored token; loading ends.
VerifyTokenSettle(netOk) ==
    /\ call.op = "verifyToken"
    /\ netOk => server = "listening"
    /\ LET resp == VerifyRoute(Bearer(call.token), now)
       IN  IF netOk /\ resp.status = 200
           THEN /\ user' = UserOfClaims(resp.user)
                /\ UNCHANGED localToken
           ELSE /\ localToken' = NoToken
                /\ UNCHANGED user
    /\ loading' = FALSE
    /\ call' = NoCall
    /\ UNCHANGED <<storeVars, clockVars, reqs, authVars, procVars, error>>

\* login of the AuthProvider up to its fetch, called by the login form.
ClientLogin(body) ==
    /\ ShowsForm
    /\ loading' = TRUE
    /\ error' = Null
    /\ call' = [NoCall EXCEPT !.op = "login", !.body = body,
                              !.since = {s \in Slots : reqs[s].pc # "idle"}]
    /\ UNCHANGED <<storeVars, clockVars, reqs, authVars, procVars, localToken, user>>

\* register of the AuthProvider up to its fetch, called by the register form.
ClientRegister(body) ==
    /\ ShowsForm
    /\ loading' = TRUE
    /\ error' = Null
    /\ call' = [NoCall EXCEPT !.op = "register", !.body = body,
                              !.since = {s \in Slots : reqs[s].pc # "idle"}]
    /\ UNCHANGED <<storeVars, clockVars, reqs, authVars, procVars, localToken, user>>

\* login and register from the point where the response has arrived: the
\* server answered request r, sent after the call began.  A response that is
\* ok saves the token and sets the user, any other sets the error; loading
\* ends.
ClientAnswer(r) ==
    /\ call.op \in {"login", "register"}
    /\ reqs[r].pc = "done"
    /\ reqs[r].kind = call.op
    /\ reqs[r].body = call.body
    /\ r \notin call.since
    /\ IF reqs[r].resp.status \in {200, 201}
       THEN /\ localToken' = reqs[r].resp.token
            /\ user' = reqs[r].resp.user
            /\ UNCHANGED error
       ELSE /\ error' = reqs[r].resp.message
            /\ UNCHANGED <<localToken, user>>
    /\ loading' = FALSE
    /\ call' = NoCall
    /\ reqs' = [reqs EXCEPT ![r].pc = "closed"]
    /\ UNCHANGED <<storeVars, clockVars, authVars, procVars>>

\* login and register when the fetch is rejected.
ClientNetworkError ==
    /\ call.op \in {"login", "register"}
    /\ error' = "Network error. Please try again."
    /\ loading' = FALSE
    /\ call' = NoCall
    /\ UNCHANGED <<storeVars, clockVars, reqs, authVars, procVars, localToken, user>>

\* The page is loaded again: the AuthProvider is rendered anew with its
\* initial state, a call that was awaiting its fetch is gone with the old
\* page, and localStorage is what it was.
Reload ==
    /\ user' = NoUser
    /\ loading' = TRUE
    /\ error' = Null
    /\ call' = Mounting
    /\ UNCHANGED <<storeVars, clockVars, reqs, authVars, procVars, localToken>>

\* logout of the AuthProvider removing the token and keeping the user.
Logout_KeepUser ==
    /\ localToken' = NoToken
    /\ UNCHANGED <<storeVars, clockVars, reqs, authVars, procVars, user,
                   loading, error, call>>

\* logout of the AuthProvider keeping the stored token.
Logout_KeepToken ==
    /\ user' = NoUser
    /\ UNCHANGED <<storeVars, clockVars, reqs, authVars, procVars, localToken,
                   loading, error, call>>

\* logout of the AuthProvider: no request is sent.
Logout ==
    /\ localToken' = NoToken
    /\ user' = NoUser
    /\ UNCHANGED <<storeVars, clockVars, reqs, authVars, procVars, loading, error, call>>

\* ------------------------------------------------------------------ start

\* connectDB continuing after a failed connection instead of exiting.
ConnectDB_NoExit(ok) ==
    /\ server = "connecting"
    /\ server' = "resolved"
    /\ db' = IF ok THEN "Login" ELSE db
    /\ UNCHANGED <<storeVars, clockVars, reqs, authVars, clientVars>>

\* connectDB: the connection succeeds and db is set, or it fails and the
\* process exits.
ConnectDB(ok) ==
    /\ server = "connecting"
    /\ IF ok
       THEN /\ db' = "Login"
            /\ server' = "resolved"
       ELSE /\ server' = "exited"
            /\ UNCHANGED db
    /\ UNCHANGED <<storeVars, clockVars, reqs, authVars, clientVars>>

\* connectDB().then(() => app.listen(PORT))
Listen ==
    /\ server = "resolved"
    /\ server' = "listening"
    /\ UNCHANGED <<storeVars, clockVars, reqs, authVars, clientVars, db>>

\* The collection outlives the server: at start it is empty, or holds an
\* account registered in an earlier run.
SeedDoc ==
    [_id |-> 1, name |-> "Ada", email |-> "ada@example.com",
     password |-> BcryptHash(Short1, saltRounds, 0), createdAt |-> 0]

\* The token the earlier run issued to that account just before this run, and
\* one it issued so long before that it has expired.
EarlierToken ==
    JwtSign([userId |-> ToHexString(SeedDoc._id), email |-> SeedDoc.email], JWT_SECRET, 0)
StaleToken ==
    JwtSign([userId |-> ToHexString(SeedDoc._id), email |-> SeedDoc.email], JWT_SECRET,
            0 - expiresIn)

\* A start: the collection and the browser's stored token are what earlier
\* runs left, the server process is at 'at' with the handle 'handle'.  The
\* driver never generates the _id of an earlier document again.
Start(colls, tokens, handle, at) ==
    /\ users \in colls
    /\ nextId = SeedDoc._id + 1
    /\ nextSalt = 1
    /\ now = 0
    /\ ticks = 0
    /\ reqs = [r \in Slots |-> Idle]
    /\ lastAuth = NoAuth
    /\ nAuth = 0
    /\ localToken \in tokens
    /\ user = NoUser
    /\ loading = TRUE
    /\ error = Null
    /\ call = Mounting
    /\ db = handle
    /\ server = at

\* The server is listening.
Init == Start({<<>>, <<SeedDoc>>}, {NoToken}, "Login", "listening")

\* ------------------------------------------------------------ specifications

\* The tokens the server issued, as a client presents them.
GenuineHeaders == {Bearer(t) : t \in Issued}

\* The credential flows: register and login with every body, the store
\* answering or failing, and verify with the tokens the server issued.
Next ==
    \/ \E r \in Slots, body \in RegisterBodies, storeOk \in BOOLEAN :
          RegisterFind(r, body, storeOk)
    \/ \E r \in Slots, outcome \in InsertOutcomes : RegisterInsert(r, outcome)
    \/ \E r \in Slots, body \in LoginBodies, storeOk \in BOOLEAN :
          Login(r, body, storeOk)
    \/ \E header \in GenuineHeaders : Verify(header)

Spec == Init /\ [][Next]_vars

\* The state after connectDB on a database whose collection is empty.
InitFresh == Init /\ users = <<>>

\* The same flows over a collection that is empty at start.
SpecFresh == InitFresh /\ [][Next]_vars

\* The life of a token: an account is registered and logged into, the clock
\* advances by the validity of a token, and protected requests carry any
\* header a client can build: /api/verify gets every one of them,
\* /api/profile, behind the same middleware, those without a tampered token.
TokenRegisterBodies ==
    {b \in RegisterBodies : b.email = "ada@example.com" /\ b.password = Short1 /\ ~Falsy(b.name)}
TokenLoginBodies ==
    {b \in LoginBodies : b.email = "ada@example.com" /\ b.password = Short1}

PlainHeaders ==
    {NoHeader, Header(<<Text("Bearer")>>), Bearer(Text(EmptyString)),
     Bearer(Text("not-a-jwt"))}
    \cup {Bearer(t) : t \in Issued}

NextToken ==
    \/ \E r \in Slots, body \in TokenRegisterBodies : RegisterFind(r, body, TRUE)
    \/ \E r \in Slots : RegisterInsert(r, "inserted")
    \/ \E r \in Slots, body \in TokenLoginBodies : Login(r, body, TRUE)
    \/ Tick(expiresIn)
    \/ \E header \in Headers : Verify(header)
    \/ \E header \in PlainHeaders : Profile(header, TRUE)

SpecToken == InitFresh /\ [][NextToken]_vars

\* The fetch of the AuthProvider's call is on its way: the call is of this
\* kind and no request has reached the server since it began.
Sent(kind) ==
    /\ call.op = kind
    /\ \A s \in Slots : reqs[s].pc # "idle" => s \in call.since

\* The session of one browser, the only client: it registers, logs in, saves
\* the tokens and logs out, while days pass and the tokens the server issued
\* are presented.
NextSession ==
    \/ \E r \in Slots : Sent("register") /\ RegisterFind(r, call.body, TRUE)
    \/ \E r \in Slots : RegisterInsert(r, "inserted")
    \/ \E r \in Slots : Sent("login") /\ Login(r, call.body, TRUE)
    \/ Tick(1)
    \/ \E header \in GenuineHeaders : Verify(header)
    \/ \E header \in GenuineHeaders, storeOk \in BOOLEAN : Profile(header, storeOk)
    \/ Mount
    \/ \E body \in TokenLoginBodies : ClientLogin(body)
    \/ \E body \in TokenRegisterBodies : ClientRegister(body)
    \/ \E r \in Slots : ClientAnswer(r)
    \/ Logout

SpecSession == InitFresh /\ [][NextSession]_vars

\* The AuthProvider from its first render, with or without a token stored by
\* an earlier session: it checks the token, registers, logs in and logs out
\* against the server, which also serves other clients.
InitClient == Start({<<>>}, {NoToken, EarlierToken, StaleToken}, "Login", "listening")

\* The fetch of the AuthProvider's call settles and the call runs to its end.
ClientSettle ==
    \/ \E netOk \in BOOLEAN : VerifyTokenSettle(netOk)
    \/ \E r \in Slots : ClientAnswer(r)
    \/ ClientNetworkError

NextClient ==
    \/ \E r \in Slots, body \in TokenRegisterBodies : RegisterFind(r, body, TRUE)
    \/ \E r \in Slots : RegisterInsert(r, "inserted")
    \/ \E r \in Slots, body \in TokenLoginBodies : Login(r, body, TRUE)
    \/ Mount
    \/ \E body \in TokenLoginBodies : ClientLogin(body)
    \/ \E body \in TokenRegisterBodies : ClientRegister(body)
    \/ ClientSettle
    \/ Logout

SpecClient == InitClient /\ [][NextClient]_vars

\* The effect runs after the first render, and a fetch settles: the server
\* answers or the browser gives the request up.
SpecClientLive == SpecClient /\ WF_vars(Mount) /\ WF_vars(ClientSettle)

\* The application as AuthContainer renders it: the forms call login and
\* register, the Sign Out button of the Dashboard calls logout, and the page
\* may be loaded again at any time.  The server also serves other clients.
NextApp ==
    \/ \E r \in Slots, body \in TokenRegisterBodies : RegisterFind(r, body, TRUE)
    \/ \E r \in Slots : RegisterInsert(r, "inserted")
    \/ \E r \in Slots, body \in TokenLoginBodies : Login(r, body, TRUE)
    \/ Mount
    \/ \E body \in TokenLoginBodies : ClientLogin(body)
    \/ \E body \in TokenRegisterBodies : ClientRegister(body)
    \/ ClientSettle
    \/ ShowsDashboard /\ Logout
    \/ Reload

SpecApp == InitClient /\ [][NextApp]_vars

\* The server from the start of its process, over a collection an earlier
\* run may have filled: it connects, listens, and serves register, login,
\* verify and profile while the store answers or fails.  Protected requests
\* carry the tokens issued in this run and the token of the earlier run.
InitStart == Start({<<>>, <<SeedDoc>>}, {NoToken}, "unset", "connecting")

StoreRegisterBodies ==
    {b \in RegisterBodies :
        ~Falsy(b.name) /\ ~Falsy(b.email) /\ b.password = Short1}
StoreLoginBodies == {b \in LoginBodies : ~Falsy(b.email) /\ b.password = Short1}
StoreHeaders == GenuineHeaders \cup {Bearer(EarlierToken)}

NextStore ==
    \/ \E ok \in BOOLEAN : ConnectDB(ok)
    \/ Listen
    \/ \E r \in Slots, body \in StoreRegisterBodies, storeOk \in BOOLEAN :
          RegisterFind(r, body, storeOk)
    \/ \E r \in Slots, outcome \in InsertOutcomes : RegisterInsert(r, outcome)
    \/ \E r \in Slots, body \in StoreLoginBodies, storeOk \in BOOLEAN :
          Login(r, body, storeOk)
    \/ \E header \in StoreHeaders : Verify(header)
    \/ \E header \in StoreHeaders, storeOk \in BOOLEAN : Profile(header, storeOk)

SpecStore == InitStart /\ [][NextStore]_vars

\* --------------------------------------------------------------------- claims

Registers == {r \in Slots : reqs[r].kind = "register"}
Logins == {r \in Slots : reqs[r].kind = "login"}

\* The request was answered, and not with the 500 of a failed store call.
Answered(r) == Responded(r) /\ reqs[r].exit \notin {"error", "dupkey"}

\* A register body with every field given.
Complete(body) == ~Falsy(body.name) /\ ~Falsy(body.email) /\ ~FalsyPassword(body.password)

\* r was answered before s arrived.
Before(r, s) == r \in reqs[s].prior
Overlap(r, s) == r # s /\ ~Before(r, s) /\ ~Before(s, r)

\* C1: of two concurrent register requests with the same email (and no third
\* one for it), exactly one is answered 201 and the other 400 'User already
\* exists', and the collection holds one document for the email.
C1_ExactlyOneRegisterSucceeds ==
    \A r \in Registers, s \in Registers :
        ( /\ Overlap(r, s)
          /\ Complete(reqs[r].body) /\ Complete(reqs[s].body)
          /\ reqs[r].body.email = reqs[s].body.email
          /\ Answered(r) /\ Answered(s)
          /\ \A o \in Registers \ {r, s} : reqs[o].body.email # reqs[r].body.email )
        => /\ \/ reqs[r].resp.status = 201 /\ reqs[s].resp = RegisterExists
              \/ reqs[s].resp.status = 201 /\ reqs[r].resp = RegisterExists
           /\ Cardinality(DocsOf(reqs[r].body.email)) = 1

\* C2: a register that arrives after a successful register whose email is
\* the same but for letter case is answered 400 'User already exists'; and
\* when no two register requests overlap, the collection holds at most one
\* document for each case-normalized email.
C2_CaseInsensitiveDuplicate ==
    /\ \A r \in Registers, s \in Registers :
          ( /\ Before(r, s)
            /\ reqs[r].resp.status = 201
            /\ Complete(reqs[s].body)
            /\ Lower(reqs[s].body.email) = Lower(reqs[r].body.email)
            /\ Answered(s) )
          => reqs[s].resp = RegisterExists
    /\ (\A r \in Registers, s \in Registers : ~Overlap(r, s))
          => \A i \in 1..Len(users), j \in 1..Len(users) :
                Lower(users[i].email) = Lower(users[j].email) => i = j

\* A login with both fields given that was refused.
Refused(r) ==
    /\ r \in Logins
    /\ Answered(r)
    /\ ~Falsy(reqs[r].body.email) /\ ~FalsyPassword(reqs[r].body.password)
    /\ reqs[r].resp.status # 200

\* C3: a login for an email without a document and a login for an email with
\* a document and another password get the same response: status 400,
\* message 'Invalid credentials', no token, no user.
C3_EnumerationResistance ==
    /\ \A r \in Slots : Refused(r) =>
          /\ reqs[r].resp.status = 400
          /\ reqs[r].resp.message = "Invalid credentials"
          /\ reqs[r].resp.token = NoToken
          /\ reqs[r].resp.user = NoUser
    /\ \A r \in Slots, s \in Slots : Refused(r) /\ Refused(s) => reqs[r].resp = reqs[s].resp

\* One login was refused for an unknown email, another for a wrong password.
C3_Witness ==
    \E r \in Slots, s \in Slots :
        /\ Refused(r) /\ DocsOf(reqs[r].body.email) = {}
        /\ Refused(s) /\ DocsOf(reqs[s].body.email) # {}
        /\ reqs[s].exit = "badpw"
        /\ reqs[s].body.password.head # Short1.head

\* C4: a register with every field given and an email not registered yet is
\* answered 201, and verify of the token it returns, at the time it was
\* issued, answers 200 with the claims: the email of the body, and the id of
\* the document the request inserted.
C4_RegisterThenVerify ==
    \A r \in Registers :
        ( /\ Answered(r)
          /\ Complete(reqs[r].body)
          /\ ~reqs[r].known )
        => LET resp == reqs[r].resp
               v    == VerifyRoute(Bearer(resp.token), resp.token.payload.iat)
           IN  /\ resp.status = 201
               /\ v.status = 200
               /\ v.user.email = reqs[r].body.email
               /\ v.user.userId = resp.user.id
               /\ \E i \in 1..Len(users) :
                     /\ ToHexString(users[i]._id) = v.user.userId
                     /\ users[i].email = reqs[r].body.email
                     /\ users[i].name = reqs[r].body.name
                     /\ users[i].password = reqs[r].hashed
               /\ ( /\ lastAuth.route = "verify"
                    /\ lastAuth.header = Bearer(resp.token)
                    /\ lastAuth.at = resp.token.payload.iat )
                  => lastAuth.resp = v

\* A register was answered 201 and /api/verify was then asked about its token.
C4_Witness ==
    \E r \in Registers :
        /\ reqs[r].resp.status = 201
        /\ reqs[r].body.email = "Ada@example.com"
        /\ lastAuth.route = "verify"
        /\ lastAuth.header = Bearer(reqs[r].resp.token)
        /\ lastAuth.at = reqs[r].resp.token.payload.iat
        /\ lastAuth.resp.status = 200

\* C5: for an account registered with (e, p), and the only one registered
\* with e, login(e, p') is answered 200 exactly when p' = p.
C5_LoginIffSamePassword ==
    \A o \in Registers, r \in Logins :
        ( /\ Before(o, r)
          /\ reqs[o].resp.status = 201
          /\ reqs[r].body.email = reqs[o].body.email
          /\ Cardinality(DocsOf(reqs[o].body.email)) = 1
          /\ ~FalsyPassword(reqs[r].body.password)
          /\ Answered(r) )
        => (reqs[r].resp.status = 200 <=> reqs[r].body.password = reqs[o].body.password)

\* The token of the last protected request.
LastToken == TokenOf(lastAuth.header)

\* C6: whatever was registered, logged into, asked of /api/profile or done in
\* the browser (saving a token, logging out), every token the server issued
\* and that has not expired is accepted: the middleware calls next() with the
\* claims of the token, and a protected request that carried it was not
\* answered 401 or 403.
C6_IssuedTokensStayValid ==
    /\ \A t \in Issued : now < t.payload.exp =>
          /\ AuthenticateToken(Bearer(t), now).next
          /\ AuthenticateToken(Bearer(t), now).user = t.payload
          /\ VerifyRoute(Bearer(t), now).status = 200
    /\ ( /\ lastAuth.route # "none"
         /\ LastToken \in Issued
         /\ lastAuth.at < LastToken.payload.exp )
       => lastAuth.resp.status \notin {401, 403}

\* An account got a token T1 at register and a later token T2 at login, the
\* browser saved a token and logged out, and /api/verify accepted T1 after T2
\* was issued.
C6_Witness ==
    \E r \in Registers, s \in Logins :
        /\ reqs[r].resp.status = 201 /\ reqs[s].resp.status = 200
        /\ reqs[r].resp.token.payload.userId = reqs[s].resp.token.payload.userId
        /\ reqs[r].resp.token.payload.iat < reqs[s].resp.token.payload.iat
        /\ \E c \in Slots : reqs[c].pc = "closed"
        /\ localToken = NoToken /\ user = NoUser
        /\ lastAuth.route = "verify"
        /\ lastAuth.header = Bearer(reqs[r].resp.token)
        /\ lastAuth.at >= reqs[s].resp.token.payload.iat
        /\ lastAuth.resp.status = 200

\* The middleware refuses the header at time t because its token is expired
\* or its signature does not match.
RefusedAt(header, t) ==
    LET a == AuthenticateToken(header, t)
    IN  ~a.next /\ a.err \in {"jwt expired", "invalid signature"}

\* C7: the clock never runs back, and a header whose token the middleware
\* refuses as expired or wrongly signed is refused in the same way after
\* every step, whatever the step does.
C7_RejectedStaysRejected ==
    [][ /\ now' >= now
        /\ \A h \in Headers : RefusedAt(h, now) => RefusedAt(h, now') ]_vars

\* /api/verify refused a token the server issued as expired, and time has
\* passed since.
C7_Witness ==
    /\ lastAuth.route = "verify"
    /\ LastToken \in Issued
    /\ lastAuth.err = "jwt expired"
    /\ lastAuth.resp.status = 403
    /\ now > lastAuth.at
    /\ RefusedAt(lastAuth.header, now)

\* The last protected request carried a token signed by the server whose
\* expiry had passed.
ExpiredPresented ==
    /\ lastAuth.route # "none"
    /\ LastToken.fmt = "jwt"
    /\ LastToken.sig = Hmac(LastToken.payload, JWT_SECRET)
    /\ lastAuth.at >= LastToken.payload.exp

\* The headers whose token jwt.verify finds malformed or wrongly signed.
BrokenHeaders(t) ==
    {h \in Headers : AuthenticateToken(h, t).err \in {"jwt malformed", "invalid signature"}}

\* C8 as claimed: the answer to a correctly signed, expired token tells the
\* kind Expired apart from the answer to a malformed or wrongly signed token.
C8_ExpiredDistinguishable ==
    ExpiredPresented =>
        /\ lastAuth.resp.status # 200
        /\ \A h \in BrokenHeaders(lastAuth.at) :
              VerifyRoute(h, lastAuth.at) # lastAuth.resp

\* C8 as amended: a correctly signed token whose expiry has passed is refused:
\* jwt.verify reports 'jwt expired' to the middleware, and the response is
\* 403 'Invalid or expired token', the same response a malformed or wrongly
\* signed token gets.
C8_ExpiredRejected ==
    ExpiredPresented =>
        /\ lastAuth.err = "jwt expired"
        /\ lastAuth.resp = TokenRejected
        /\ \A h \in BrokenHeaders(lastAuth.at) :
              VerifyRoute(h, lastAuth.at) = lastAuth.resp

\* /api/verify was asked about an issued token at the instant of its expiry.
C8_Witness ==
    /\ ExpiredPresented
    /\ lastAuth.route = "verify"
    /\ LastToken \in Issued
    /\ lastAuth.at = LastToken.payload.exp
    /\ BrokenHeaders(lastAuth.at) # {}

\* The tokens a client makes of an issued one by altering the signature, or
\* the claims without a signature of the server.
Altered ==
    UNION {{AlterSignature(t), ExtendExpiry(t), ChangeEmail(t), Resign(ChangeEmail(t))} :
              t \in Issued}

\* C9: a protected request with an altered token that has not expired is
\* refused with jwt.verify's 'invalid signature': the response is 403
\* 'Invalid or expired token' and carries no claims.
C9_AlteredTokenRejected ==
    ( /\ lastAuth.route # "none"
      /\ lastAuth.header.present
      /\ LastToken \in Altered
      /\ lastAuth.at < LastToken.payload.exp )
    => /\ lastAuth.err = "invalid signature"
       /\ lastAuth.resp.status = 403
       /\ lastAuth.resp.message = "Invalid or expired token"
       /\ lastAuth.resp.user = NoUser

\* A protected request carried an issued token with another email in its
\* claims, before the expiry.
C9_Witness ==
    /\ lastAuth.route # "none"
    /\ \E t \in Issued : lastAuth.header = Bearer(ChangeEmail(t))
    /\ lastAuth.at < LastToken.payload.exp
    /\ lastAuth.resp.status = 403

\* No token is presented: there is no authorization header, or its second
\* space-separated part is missing or empty.
NoTokenPresented(header) ==
    \/ ~header.present
    \/ Len(header.parts) < 2
    \/ header.parts[2] = Text(EmptyString)

\* The token is one the server issued and has not expired at time t.
ValidAt(token, t) == token \in Issued /\ t < token.payload.exp

\* C10: a protected request is answered 401 'Access token required' exactly
\* when no token is presented, 403 'Invalid or expired token' when the token
\* presented is not a valid one, and reaches the route handler exactly when
\* the token presented is valid.
C10_ProtectedRequestStatus ==
    lastAuth.route # "none" =>
        LET h == lastAuth.header
            resp == lastAuth.resp
        IN  /\ resp.status = 401 <=> NoTokenPresented(h)
            /\ resp.status = 401 => resp = TokenRequired
            /\ resp.status = 403 <=> (~NoTokenPresented(h) /\ ~ValidAt(TokenOf(h), lastAuth.at))
            /\ resp.status = 403 => resp = TokenRejected
            /\ resp.status \notin {401, 403}
                  <=> (~NoTokenPresented(h) /\ ValidAt(TokenOf(h), lastAuth.at))

\* A protected request carried the header 'Bearer' and no token.
C10_Witness ==
    /\ lastAuth.route = "profile"
    /\ lastAuth.header = Header(<<Text("Bearer")>>)
    /\ lastAuth.resp = TokenRequired

\* C11: a register whose insertOne is refused with a duplicate-key error,
\* because another request inserted its email after this request's lookup
\* found none, is answered like a duplicate found by the lookup: 400 'User
\* already exists', and not 500.
C11_RacedInsertIsDuplicate ==
    \A r \in Registers :
        ( /\ Responded(r)
          /\ reqs[r].exit = "dupkey"
          /\ ~reqs[r].known )
        => /\ reqs[r].resp = RegisterExists
           /\ reqs[r].resp.status # 500

\* The request lacks a required field: name, email or password of a register,
\* email or password of a login, is missing or empty.
LacksField(req) ==
    \/ req.body.email \in {EmptyString, Missing}
    \/ req.body.password \in {NoPassword, MissingPassword}
    \/ req.kind = "register" /\ req.body.name \in {EmptyString, Missing}

\* C12: a register or login that lacks a required field is answered 400 in
\* the step it arrives, with the message of its route and without token; its
\* handler calls neither the store nor bcrypt nor jwt.sign, and the step
\* leaves the collection, the next _id and the next salt as they were.
C12_MissingFieldRefused ==
    /\ [](\A r \in Slots : (reqs[r].kind # "none" /\ LacksField(reqs[r])) =>
            /\ reqs[r].pc = "done"
            /\ reqs[r].resp.status = 400
            /\ reqs[r].resp.message =
                  IF reqs[r].kind = "register" THEN "All fields are required"
                  ELSE "Email and password are required"
            /\ reqs[r].resp.token = NoToken
            /\ reqs[r].resp.user = NoUser
            /\ reqs[r].calls = <<>>
            /\ reqs[r].hashed = NoHash)
    /\ [][\A r \in Slots :
            (reqs[r].kind = "none" /\ reqs'[r].kind # "none" /\ LacksField(reqs'[r]))
            => UNCHANGED storeVars]_vars

\* A register without password and a login with an empty email were refused.
C12_Witness ==
    \E r \in Registers, s \in Logins :
        /\ reqs[r].body.password = MissingPassword
        /\ reqs[r].resp.status = 400
        /\ reqs[s].body.email = EmptyString
        /\ reqs[s].resp.status = 400

\* A store call of the request threw.
StoreFailed(r) == Responded(r) /\ reqs[r].exit \in {"error", "dupkey"}

\* C13: a register or login whose store call throws, and a profile whose
\* findOne throws, are answered 500 with the message 'Server error' and
\* nothing else: no token, no user, no text of the exception.  The server
\* goes on listening, and a request that arrives after a failed one and
\* whose own store calls answer is not answered 500.
C13_StoreFailureIsGeneric ==
    /\ [](\A r \in Slots : StoreFailed(r) =>
            reqs[r].resp = Response(500, "Server error", NoToken, NoUser))
    /\ [](lastAuth.thrown =>
            lastAuth.resp = Response(500, "Server error", NoToken, NoUser))
    /\ [](\A s \in Slots :
            (Responded(s) /\ ~StoreFailed(s) /\ \E r \in reqs[s].prior : StoreFailed(r))
            => reqs[s].resp.status \in {200, 201, 400})
    /\ [][server = "listening" => server' = "listening"]_vars

\* A register failed at insertOne, a later login was answered 200, and a
\* profile request failed at findOne.
C13_Witness ==
    \E r \in Registers, s \in Logins :
        /\ StoreFailed(r)
        /\ reqs[r].calls = <<"findOne", "bcrypt.hash", "insertOne">>
        /\ Before(r, s)
        /\ reqs[s].resp.status = 200
        /\ lastAuth.route = "profile"
        /\ lastAuth.thrown
        /\ lastAuth.resp.status = 500

\* The stored document without its password field.
WithoutPassword(d) ==
    [_id |-> d._id, name |-> d.name, email |-> d.email, createdAt |-> d.createdAt]

\* C14: the user in a response of register and login has exactly the fields
\* id, name and email, and its token holds the claims userId, email, iat and
\* exp; every other response of the two routes has neither user nor token;
\* verify answers with the claims of the token; profile answers with a stored
\* document without its password field.  The password field of every stored
\* document is a bcrypt hash of cost saltRounds, not the password.
C14_NoPasswordInResponses ==
    /\ \A r \in Slots : Responded(r) =>
          IF reqs[r].resp.status \in {200, 201}
          THEN /\ DOMAIN reqs[r].resp.user = {"id", "name", "email"}
               /\ DOMAIN reqs[r].resp.token.payload = {"userId", "email", "iat", "exp"}
          ELSE /\ reqs[r].resp.user = NoUser
               /\ reqs[r].resp.token = NoToken
    /\ (lastAuth.route # "none" /\ lastAuth.resp.status # 200) =>
          lastAuth.resp.user = NoUser
    /\ (lastAuth.route = "verify" /\ lastAuth.resp.status = 200) =>
          /\ lastAuth.resp.user = LastToken.payload
          /\ DOMAIN lastAuth.resp.user = {"userId", "email", "iat", "exp"}
    /\ (lastAuth.route = "profile" /\ lastAuth.resp.status = 200) =>
          /\ "password" \notin DOMAIN lastAuth.resp.user
          /\ \E i \in 1..Len(users) : lastAuth.resp.user = WithoutPassword(users[i])
    /\ \A i \in 1..Len(users) :
          /\ DOMAIN users[i].password = {"cost", "salt", "digest"}
          /\ users[i].password.cost = saltRounds
          /\ users[i].password \notin Passwords
    /\ \A r \in Registers : reqs[r].resp.status = 201 =>
          \E i \in 1..Len(users) :
              /\ ToHexString(users[i]._id) = reqs[r].resp.user.id
              /\ users[i].password =
                    BcryptHash(reqs[r].body.password, saltRounds, users[i].password.salt)

\* A register was answered 201 and a profile request with its token 200.
C14_Witness ==
    \E r \in Registers :
        /\ reqs[r].resp.status = 201
        /\ lastAuth.route = "profile"
        /\ lastAuth.header = Bearer(reqs[r].resp.token)
        /\ lastAuth.resp.status = 200
        /\ lastAuth.resp.user.email = reqs[r].body.email

\* The token of the last protected request is signed by the server and had
\* not expired when it was presented.
LastTokenGood ==
    /\ lastAuth.header.present
    /\ LastToken.fmt = "jwt"
    /\ LastToken.sig = Hmac(LastToken.payload, JWT_SECRET)
    /\ lastAuth.at < LastToken.payload.exp

\* C15: /api/verify makes no call to the store and leaves it unchanged; with
\* a token that is signed by the server and not expired it answers 200 with
\* the claims of the token, also when the collection holds no document for
\* the subject; and a step that changes the collection without changing the
\* time changes the answer of /api/verify to no header.
C15_VerifyNoStoreAccess ==
    /\ [](lastAuth.route = "verify" =>
            /\ lastAuth.calls = <<>>
            /\ ~lastAuth.thrown
            /\ LastTokenGood =>
                  lastAuth.resp = Response(200, "Token is valid", NoToken,
                                           LastToken.payload))
    /\ [][ /\ (nAuth' # nAuth /\ lastAuth'.route = "verify") => UNCHANGED storeVars
           /\ now' = now =>
                 \A h \in StoreHeaders : VerifyRoute(h, now)' = VerifyRoute(h, now)
         ]_vars

\* /api/verify accepted a token whose subject has no document.
C15_Witness ==
    /\ lastAuth.route = "verify"
    /\ LastTokenGood
    /\ FindOneById(ObjectIdOf(LastToken.payload.userId)) = NoDoc
    /\ lastAuth.resp.status = 200
    /\ Len(users) > 0

\* The documents whose _id is the subject of the last protected request's token.
SubjectDocs == {i \in 1..Len(users) : users[i]._id = ObjectIdOf(LastToken.payload.userId)}

\* C16: a profile request whose token is signed by the server and not
\* expired, and whose findOne does not throw, is answered 200 with the
\* stored document (less its password) whose _id is the subject of the
\* token, or 404 'User not found' when the collection holds no such
\* document; the document it returns is never that of another _id.
C16_ProfileOfSubject ==
    (lastAuth.route = "profile" /\ LastTokenGood /\ ~lastAuth.thrown) =>
        IF SubjectDocs = {}
        THEN lastAuth.resp = Response(404, "User not found", NoToken, NoUser)
        ELSE /\ lastAuth.resp.status = 200
             /\ lastAuth.resp.user._id = ObjectIdOf(LastToken.payload.userId)
             /\ \E i \in SubjectDocs : lastAuth.resp.user = WithoutPassword(users[i])

\* A profile request with the token of an account whose document is gone was
\* answered 404 while the collection held another account.
C16_Witness ==
    /\ lastAuth.route = "profile"
    /\ LastTokenGood
    /\ SubjectDocs = {}
    /\ Len(users) > 0
    /\ lastAuth.resp.status = 404

\* A profile request of the second account of the collection was answered 200.
C16_SecondAccount ==
    /\ lastAuth.route = "profile"
    /\ lastAuth.resp.status = 200
    /\ Len(users) > 1
    /\ lastAuth.resp.user = WithoutPassword(users[2])

\* C17: in every step the documents the collection held stay in it as they
\* were; a step adds at most one document, and only the step in which a
\* register request is answered 201; a step in which a login arrives, a
\* register is refused or fails, or a verify or profile request is served
\* leaves the collection unchanged.
C17_StoreOnlyGrows ==
    [][ /\ Len(users') >= Len(users)
        /\ \A i \in 1..Len(users) : users'[i] = users[i]
        /\ users' # users =>
              /\ Len(users') = Len(users) + 1
              /\ \E r \in Slots :
                    /\ reqs[r].kind = "register" /\ reqs[r].pc = "insert"
                    /\ reqs'[r].exit = "created" /\ reqs'[r].resp.status = 201
                    /\ users'[Len(users')].email = reqs[r].body.email
        /\ nAuth' # nAuth => users' = users
        /\ (\E r \in Slots : reqs[r].kind = "none" /\ reqs'[r].kind = "login")
              => users' = users
        /\ (\E r \in Slots : /\ reqs[r].exit = "none"
                             /\ reqs'[r].exit \in {"invalid", "exists", "error", "dupkey"})
              => users' = users
      ]_vars

\* The collection of an earlier run grew by one register, after which a
\* register for the first account was refused and a profile request served.
C17_Witness ==
    \E r \in Registers, s \in Registers :
        /\ reqs[r].exit = "created"
        /\ reqs[s].exit = "exists"
        /\ Before(r, s)
        /\ Len(users) = 2
        /\ users[1] = SeedDoc
        /\ lastAuth.route = "profile"
        /\ lastAuth.resp.status = 200

\* A request has been handled.
Handled == (\E r \in Slots : reqs[r].kind # "none") \/ lastAuth.route # "none"

\* C18: the server listens only with the store handle set, a request is
\* handled only by a listening server with the handle set, and a process
\* that exited because the connection failed has handled no request and
\* never listens.
C18_ListenAfterConnect ==
    /\ [](server = "listening" => db # "unset")
    /\ [](Handled => (server = "listening" /\ db # "unset"))
    /\ [](server = "exited" => (db = "unset" /\ ~Handled))
    /\ [][server = "exited" => server' = "exited"]_vars
    /\ [][server' = "listening" => server \in {"resolved", "listening"}]_vars

\* The connection failed and the process exited.
C18_Witness ==
    /\ server = "exited"
    /\ db = "unset"
    /\ ~Handled

\* The connection succeeded, the server listens and has answered a register.
C18_Serving ==
    /\ server = "listening"
    /\ db = "Login"
    /\ \E r \in Registers : reqs[r].resp.status = 201

\* C19: a step of logout ends with no token in localStorage and the user
\* null, whatever they were before, and sends nothing to the server: the
\* requests of the server, the call of the AuthProvider that is awaiting its
\* fetch, loading and error stay as they were.
C19_LogoutClears ==
    [][Logout =>
          /\ localToken' = NoToken
          /\ user' = NoUser
          /\ UNCHANGED <<reqs, lastAuth, nAuth, call, loading, error>>
          /\ UNCHANGED storeVars
      ]_vars

\* The browser saved the token of a register or login it made, and then
\* logged out.
C19_Witness ==
    /\ \E r \in Slots : reqs[r].pc = "closed" /\ reqs[r].resp.status \in {200, 201}
    /\ localToken = NoToken
    /\ user = NoUser
    /\ ~loading
    /\ call.op = "none"

\* C20: the effect of the first render, the token check, login and register
\* each lead to a state where the call has ended and loading is false,
\* whether the server answered with success or with an error or the fetch
\* was rejected; and the effect of the first render without a stored token
\* sets loading to false itself and sends no request.
C20_LoadingEnds ==
    /\ \A op \in {"mount", "verifyToken", "login", "register"} :
          (call.op = op) ~> (call.op = "none" /\ ~loading)
    /\ loading ~> ~loading
    /\ [][(call.op = "mount" /\ localToken = NoToken /\ call' # call)
            => (loading' = FALSE /\ call'.op = "none" /\ reqs' = reqs)]_vars

\* The stored token was refused at the first render, and a login then failed
\* in the network: loading is false.
C20_Witness ==
    /\ error = "Network error. Please try again."
    /\ ~loading
    /\ call.op = "none"
    /\ localToken = NoToken
    /\ user = NoUser

\* C21: the effect of the first render sends a stored token to /api/verify.
\* The step that ends this check either removes the token and leaves the
\* user null, or leaves the token stored and sets the user to the id and
\* email of the token's claims; it does the second only when /api/verify
\* accepts the token, so a token the server refuses is always removed.
C21_StartupTokenCheck ==
    [][ /\ (call.op = "mount" /\ localToken # NoToken /\ call'.op \notin {"mount"})
              => (call'.op = "verifyToken" /\ call'.token = localToken
                  /\ localToken' = localToken /\ user' = NoUser)
        /\ (call.op = "verifyToken" /\ call'.op = "none") =>
              LET answer == VerifyRoute(Bearer(call.token), now)
              IN  /\ localToken = call.token
                  /\ user = NoUser
                  /\ \/ localToken' = NoToken /\ user' = NoUser
                     \/ /\ answer.status = 200
                        /\ localToken' = call.token
                        /\ user' # NoUser
                        /\ user'.id = call.token.payload.userId
                        /\ user'.email = call.token.payload.email
                  /\ answer.status # 200 => (localToken' = NoToken /\ user' = NoUser)
      ]_vars

\* The token of an earlier session was accepted at the first render: it is
\* still stored and the user is the one of its claims.
C21_Witness ==
    /\ localToken = EarlierToken
    /\ user # NoUser
    /\ user.id = EarlierToken.payload.userId
    /\ user.email = EarlierToken.payload.email
    /\ ~loading
    /\ call.op = "none"

\* C22: in every state of the application a user that is not null comes with
\* a token in localStorage.
C22_UserImpliesToken ==
    user # NoUser => localToken # NoToken

\* The browser shows the user of a login or register it made, with the token
\* of that response stored, while a request of another client is under way.
C22_Witness ==
    /\ \E r \in Slots :
          /\ reqs[r].pc = "closed"
          /\ localToken = reqs[r].resp.token
          /\ user = reqs[r].resp.user
    /\ \E s \in Slots : reqs[s].pc = "insert"
    /\ ~loading

\* C23: whenever the browser shows a user under the stored token of a login
\* or register it made, also after the page was loaded again and the user
\* was rebuilt from the token, the user has the id, name and email that the
\* login or register set.
C23_RestoreAgreesWithLogin ==
    \A r \in Slots :
        ( /\ reqs[r].pc = "closed"
          /\ reqs[r].resp.status \in {200, 201}
          /\ localToken = reqs[r].resp.token
          /\ user # NoUser )
        => /\ user.id = reqs[r].resp.user.id
           /\ user.name = reqs[r].resp.user.name
           /\ user.email = reqs[r].resp.user.email
====
